---- MODULE Spec2Model ----
(***************************************************************************)
(* Device-path parsing and navigation of uefi/src/proto/device_path/mod.rs *)
(* A device path is a packed list of variable-length nodes, each starting  *)
(* with a 4-byte header (type, subtype, u16 little-endian length).         *)
(*                                                                         *)
(* Memory is a sequence of bytes `mem`; offsets are 0-based, so the byte   *)
(* at offset i is mem[i + 1].  A slice or view is a pair (off, len).       *)
(***************************************************************************)
EXTENDS Integers, Sequences, FiniteSets, TLC

\* ------------------------------------------------------------------ bounds

\* Most nodes before the END_ENTIRE node of a generated device path.
MaxNodes == 2
\* Longest arbitrary byte slice handed to the safe (TryFrom) constructors.
MaxRawLen == 5

\* --------------------------------------------------------- program constants

\* size_of::<DevicePathHeader>(): u8 + u8 + u16, packed.
HeaderSize == 4
\* DeviceType::END
END == 127
\* DeviceSubType::END_INSTANCE
END_INSTANCE == 1
\* DeviceSubType::END_ENTIRE
END_ENTIRE == 255

None == [tag |-> "None"]

\* ------------------------------------------------------------ test fixtures

\* u16::to_le_bytes
ToLeBytes(n) == << n % 256, n \div 256 >>

\* tests::add_node: append a node made of raw data to `path`.
AddNode(path, device_type, sub_type, node_data) ==
    path \o << device_type, sub_type >> \o ToLeBytes(HeaderSize + Len(node_data)) \o node_data

Elem(t, s, d) == [device_type |-> t, sub_type |-> s, data |-> d]

\* tests::create_raw_device_path, as the list of nodes it adds.
RawDevicePathNodes ==
    << Elem(160, 176, << 10, 11 >>),
       Elem(161, 177, << 20, 21, 22, 23 >>),
       Elem(END, END_INSTANCE, << >>),
       Elem(162, 178, << 30, 31 >>),
       Elem(163, 179, << 40, 41, 42, 43 >>),
       Elem(END, END_ENTIRE, << >>) >>

RECURSIVE Flatten(_)
\* The bytes of a list of nodes: add_node applied to each, in order.
Flatten(es) ==
    IF es = << >> THEN << >>
    ELSE AddNode(Flatten(SubSeq(es, 1, Len(es) - 1)),
                 es[Len(es)].device_type, es[Len(es)].sub_type, es[Len(es)].data)

\* Nodes that may precede the final END_ENTIRE node of a generated path: an
\* ordinary node, an END_INSTANCE node, an END-typed node of another subtype,
\* and a non-END node whose subtype byte equals END_ENTIRE's.
BodyKinds ==
    { Elem(160, 176, << 10, 11 >>),
      Elem(END, END_INSTANCE, << >>),
      Elem(END, 2, << >>),
      Elem(161, END_ENTIRE, << >>) }

SeqsUpTo(S, n) == UNION { [1..k -> S] : k \in 0..n }

\* Well-formed device paths: nodes of declared length >= 4, the first
\* END/END_ENTIRE node being the last one.
WellFormedPaths ==
    { body \o << Elem(END, END_ENTIRE, << >>) >> : body \in SeqsUpTo(BodyKinds, MaxNodes) }
        \cup { RawDevicePathNodes }

\* Memory found after the END_ENTIRE node: nothing, or another whole path.
Tails == { << >>, Flatten(<< Elem(162, 178, << >>), Elem(END, END_ENTIRE, << >>) >>) }

\* Byte values of the arbitrary slices.
RawBytes == { 0, 2, 4, END, END_ENTIRE }

RawSlices == SeqsUpTo(RawBytes, MaxRawLen)

\* The first k bytes of a well-formed device path, for every k below its size.
TruncatedPaths ==
    UNION { { SubSeq(Flatten(p), 1, k) : k \in 0..(Len(Flatten(p)) - 1) } :
            p \in WellFormedPaths }

\* Slices holding one node, as tests::test_specific_node_from_device_path_node
\* builds them: END nodes with and without payload, and other nodes.
NodeSlices ==
    { Flatten(<< Elem(t, s, d) >>) :
        t \in { END, 160 }, s \in { END_INSTANCE, END_ENTIRE, 2 }, d \in { << >>, << 10, 11 >> } }

\* ------------------------------------------------------------------- state

VARIABLES
    mem,              \* the bytes supplied by the caller
    elems,            \* the nodes add_node built mem from (<< >>: arbitrary bytes)
    overflow_checks,  \* build profile: arithmetic overflow panics (TRUE) or wraps
    pc,               \* "idle", the running size loop, or "panicked"
    bytes_off,        \* size loops: offset of the loop's `bytes` / `ptr` in mem
    total,            \* size loops: total_size_in_bytes
    reads_hi,         \* highest offset read by the bounds-checked constructors
    node_res,         \* result of <&DevicePathNode>::try_from(mem)
    slice_res,        \* result of DevicePath::size_in_bytes_from_slice(mem)
    ptr_res,          \* result of DevicePath::size_in_bytes_from_ptr(mem.as_ptr())
    dp,               \* the &DevicePath view under iteration
    it,               \* the DevicePathNodeIterator
    it_src,           \* the path or instance view whose node_iter() made `it`
    yielded,          \* the nodes `it` has returned, in order
    it_done,          \* `it`.next() has returned None
    iit,              \* the DevicePathInstanceIterator
    instances,        \* the instances `iit` has returned, in order
    iit_done,         \* `iit`.next() has returned None
    owned,            \* the Box made by to_boxed(), and the view it copied
    call              \* the last conversion or to_string call and its result

vars == << mem, elems, overflow_checks, pc, bytes_off, total, reads_hi, node_res,
           slice_res, ptr_res, dp, it, it_src, yielded, it_done, iit, instances, iit_done,
           owned, call >>

\* Whether the caller built mem as a well-formed device path (the precondition
\* of the unsafe from_ffi_ptr constructors).
Trusted == elems # << >>

Max(a, b) == IF a >= b THEN a ELSE b

\* --------------------------------------------------------------- node views

\* The values a read of the byte at offset i can give: the byte of mem, or,
\* past the end of mem, whatever lies there.
ByteAt(i) == IF i < Len(mem) THEN { mem[i + 1] } ELSE RawBytes

\* u16::from_le_bytes, the packed `length` field.
FromLeBytes(lo, hi) == lo + 256 * hi

\* *ptr.cast::<DevicePathHeader>(): the headers a read at offset `off` can give.
Headers(off) ==
    { [device_type |-> b0, sub_type |-> b1, length |-> FromLeBytes(b2, b3)] :
        b0 \in ByteAt(off), b1 \in ByteAt(off + 1),
        b2 \in ByteAt(off + 2), b3 \in ByteAt(off + 3) }

\* usize::from(header.length) - size_of::<DevicePathHeader>(): n when it does not
\* underflow; an underflow that wraps gives 2^usize::BITS + n with n < 0, kept
\* symbolic as wrapped = TRUE.
DataLen(length) ==
    [wrapped |-> length < HeaderSize, n |-> length - HeaderSize]

\* DevicePathNode::from_ffi_ptr on a header already read at `off`.
NodeOfHeader(off, h) ==
    IF h.length < HeaderSize /\ overflow_checks
    THEN [tag |-> "Panic"]
    ELSE [tag |-> "Ok",
          node |-> [off |-> off, device_type |-> h.device_type, sub_type |-> h.sub_type,
                    length |-> h.length, data_len |-> DataLen(h.length)]]

\* DevicePathNode::from_ffi_ptr: the outcomes of building a node view at `off`.
NodeFromFfiPtr(off) == { NodeOfHeader(off, h) : h \in Headers(off) }

\* Mutant of IsEndEntire: the subtype is not compared, so every END-typed node
\* counts as the end of the entire path.
IsEndEntire_TypeOnly(node) == node.device_type = END

\* DevicePathNode::is_end_entire
IsEndEntire(node) == node.device_type = END /\ node.sub_type = END_ENTIRE

Err(e) == [tag |-> "Err", err |-> e]

\* Mutant of HeaderTryFrom: a header whose length field is below the size of
\* a header is rejected.
HeaderTryFrom_LengthFieldChecked(off) ==
    IF HeaderSize <= Len(mem) - off /\ FromLeBytes(mem[off + 3], mem[off + 4]) >= HeaderSize
    THEN [tag |-> "Ok"]
    ELSE Err("InvalidLength")

\* Mutant of HeaderTryFrom: the slice is only required to be non-empty.
HeaderTryFrom_NonEmpty(off) ==
    IF 0 < Len(mem) - off THEN [tag |-> "Ok"] ELSE Err("InvalidLength")

\* <&DevicePathHeader>::try_from(bytes), bytes being mem[off..]: Ok iff the
\* slice holds a header.
HeaderTryFrom(off) ==
    IF HeaderSize <= Len(mem) - off THEN [tag |-> "Ok"] ELSE Err("InvalidLength")

\* <&DevicePathNode>::try_from(bytes), bytes being mem[off..].
NodeTryFrom(off) ==
    IF HeaderTryFrom(off).tag # "Ok" THEN { HeaderTryFrom(off) }
    ELSE { IF h.length <= Len(mem) - off THEN NodeOfHeader(off, h) ELSE Err("InvalidLength") :
             h \in Headers(off) }

\* The highest offset <&DevicePathNode>::try_from(mem[off..]) reads: the header
\* bytes, once the slice is known to hold them.
NodeTryFromReads(off) ==
    IF HeaderTryFrom(off).tag = "Ok" THEN off + HeaderSize - 1 ELSE -1


\* -------------------------------------------------------------------- Init

Inputs ==
    { [mem |-> Flatten(p) \o t, elems |-> p] : p \in WellFormedPaths, t \in Tails }
        \cup { [mem |-> b, elems |-> << >>] : b \in RawSlices \cup TruncatedPaths \cup NodeSlices }

Init ==
    /\ \E i \in Inputs : mem = i.mem /\ elems = i.elems
    /\ overflow_checks \in BOOLEAN
    /\ pc = "idle"
    /\ bytes_off = 0
    /\ total = 0
    /\ reads_hi = -1
    /\ node_res = None
    /\ slice_res = None
    /\ ptr_res = None
    /\ dp = None
    /\ it = None
    /\ it_src = None
    /\ yielded = << >>
    /\ it_done = FALSE
    /\ iit = None
    /\ instances = << >>
    /\ iit_done = FALSE
    /\ owned = None
    /\ call = None

aux_vars == << owned, call >>

iter_vars == << it, it_src, yielded, it_done, iit, instances, iit_done >>

\* ptr_meta::from_raw_parts(ptr, len): a view of `len` bytes at offset `off`.
View(off, len) == [off |-> off, len |-> len]

\* ------------------------------------------------- bounds-checked constructors

\* <&DevicePathNode>::try_from(mem)
NodeTryFromBytes ==
    /\ pc = "idle"
    /\ node_res = None
    /\ \E r \in NodeTryFrom(0) :
         /\ node_res' = r
         /\ pc' = IF r.tag = "Panic" THEN "panicked" ELSE pc
    /\ reads_hi' = Max(reads_hi, NodeTryFromReads(0))
    /\ UNCHANGED << aux_vars, mem, elems, overflow_checks, bytes_off, total, slice_res, ptr_res, dp,
                    iter_vars >>

\* <&DevicePath>::try_from(mem): entry, up to the loop of
\* DevicePath::size_in_bytes_from_slice(mem).
SizeFromSliceStart ==
    /\ pc = "idle"
    /\ it = None /\ iit = None
    /\ slice_res = None
    /\ pc' = "size_slice"
    /\ bytes_off' = 0
    /\ total' = 0
    /\ UNCHANGED << aux_vars, mem, elems, overflow_checks, reads_hi, node_res, slice_res, ptr_res, dp,
                    iter_vars >>

\* Mutant of SliceLoopBody: the bound test is >= instead of >, so a path that
\* fills the slice exactly is rejected.
SliceLoopBody_OffByOne(r) ==
    IF r.tag = "Err" THEN
        [pc |-> "idle", res |-> r, off |-> bytes_off, total |-> total]
    ELSE IF r.tag = "Panic" THEN
        [pc |-> "panicked", res |-> r, off |-> bytes_off, total |-> total]
    ELSE IF total + r.node.length >= Len(mem) THEN
        [pc |-> "idle", res |-> Err("InvalidLength"), off |-> bytes_off,
         total |-> total + r.node.length]
    ELSE IF IsEndEntire(r.node) THEN
        [pc |-> "idle", res |-> [tag |-> "Ok", size |-> total + r.node.length],
         off |-> bytes_off, total |-> total + r.node.length]
    ELSE
        [pc |-> "size_slice", res |-> None, off |-> bytes_off + r.node.length,
         total |-> total + r.node.length]

\* Mutant of SliceLoopBody: a slice exhausted before any END_ENTIRE node is
\* taken for the end of the path.
SliceLoopBody_ExhaustedIsOk(r) ==
    IF r.tag = "Err" /\ bytes_off = Len(mem) THEN
        [pc |-> "idle", res |-> [tag |-> "Ok", size |-> total], off |-> bytes_off,
         total |-> total]
    ELSE IF r.tag = "Err" THEN
        [pc |-> "idle", res |-> r, off |-> bytes_off, total |-> total]
    ELSE IF r.tag = "Panic" THEN
        [pc |-> "panicked", res |-> r, off |-> bytes_off, total |-> total]
    ELSE IF total + r.node.length > Len(mem) THEN
        [pc |-> "idle", res |-> Err("InvalidLength"), off |-> bytes_off,
         total |-> total + r.node.length]
    ELSE IF IsEndEntire(r.node) THEN
        [pc |-> "idle", res |-> [tag |-> "Ok", size |-> total + r.node.length],
         off |-> bytes_off, total |-> total + r.node.length]
    ELSE
        [pc |-> "size_slice", res |-> None, off |-> bytes_off + r.node.length,
         total |-> total + r.node.length]

\* Mutant of SliceLoopBody: an END_ENTIRE node ends the walk only when it is
\* the last thing in the slice.
SliceLoopBody_EndOfSliceOnly(r) ==
    IF r.tag = "Err" THEN
        [pc |-> "idle", res |-> r, off |-> bytes_off, total |-> total]
    ELSE IF r.tag = "Panic" THEN
        [pc |-> "panicked", res |-> r, off |-> bytes_off, total |-> total]
    ELSE IF total + r.node.length > Len(mem) THEN
        [pc |-> "idle", res |-> Err("InvalidLength"), off |-> bytes_off,
         total |-> total + r.node.length]
    ELSE IF IsEndEntire(r.node) /\ total + r.node.length = Len(mem) THEN
        [pc |-> "idle", res |-> [tag |-> "Ok", size |-> total + r.node.length],
         off |-> bytes_off, total |-> total + r.node.length]
    ELSE
        [pc |-> "size_slice", res |-> None, off |-> bytes_off + r.node.length,
         total |-> total + r.node.length]

\* One iteration of the loop of size_in_bytes_from_slice on the outcome r of
\* <&DevicePathNode>::try_from(bytes): what the loop does next, as
\* [pc, res, off, total].
SliceLoopBody(r) ==
    IF r.tag = "Err" THEN
        [pc |-> "idle", res |-> r, off |-> bytes_off, total |-> total]
    ELSE IF r.tag = "Panic" THEN
        [pc |-> "panicked", res |-> r, off |-> bytes_off, total |-> total]
    ELSE IF total + r.node.length > Len(mem) THEN
        [pc |-> "idle", res |-> Err("InvalidLength"), off |-> bytes_off,
         total |-> total + r.node.length]
    ELSE IF IsEndEntire(r.node) THEN
        [pc |-> "idle", res |-> [tag |-> "Ok", size |-> total + r.node.length],
         off |-> bytes_off, total |-> total + r.node.length]
    ELSE
        [pc |-> "size_slice", res |-> None, off |-> bytes_off + r.node.length,
         total |-> total + r.node.length]

\* <&DevicePath>::try_from: one iteration of the loop of size_in_bytes_from_slice;
\* on Ok(len) the view of len bytes is built.
SizeFromSliceStep ==
    /\ pc = "size_slice"
    /\ \E r \in NodeTryFrom(bytes_off) :
         LET n == SliceLoopBody(r) IN
         /\ pc' = n.pc
         /\ slice_res' = n.res
         /\ bytes_off' = n.off
         /\ total' = n.total
         /\ dp' = IF n.res.tag = "Ok" THEN View(0, n.res.size) ELSE dp
    /\ reads_hi' = Max(reads_hi, NodeTryFromReads(bytes_off))
    /\ UNCHANGED << aux_vars, mem, elems, overflow_checks, node_res, ptr_res, iter_vars >>

\* ------------------------------------------------------ trusted constructor

\* DevicePath::from_ffi_ptr(mem.as_ptr()): entry, up to the loop of
\* size_in_bytes_from_ptr.  The caller promises a well-formed device path at the
\* pointer.
SizeFromPtrStart ==
    /\ pc = "idle"
    /\ it = None /\ iit = None
    /\ Trusted
    /\ ptr_res = None
    /\ pc' = "size_ptr"
    /\ bytes_off' = 0
    /\ total' = 0
    /\ UNCHANGED << aux_vars, mem, elems, overflow_checks, reads_hi, node_res, slice_res, ptr_res, dp,
                    iter_vars >>

\* Mutant of PtrLoopBody: the loop breaks on the END_ENTIRE node before adding
\* its length.
PtrLoopBody_EndNotCounted(r) ==
    IF r.tag = "Panic" THEN
        [pc |-> "panicked", res |-> r, off |-> bytes_off, total |-> total]
    ELSE IF IsEndEntire(r.node) THEN
        [pc |-> "idle", res |-> [tag |-> "Ok", size |-> total],
         off |-> bytes_off, total |-> total]
    ELSE
        [pc |-> "size_ptr", res |-> None, off |-> bytes_off + r.node.length,
         total |-> total + r.node.length]

\* One iteration of the loop of size_in_bytes_from_ptr on the outcome r of
\* DevicePathNode::from_ffi_ptr(ptr), as [pc, res, off, total].
PtrLoopBody(r) ==
    IF r.tag = "Panic" THEN
        [pc |-> "panicked", res |-> r, off |-> bytes_off, total |-> total]
    ELSE IF IsEndEntire(r.node) THEN
        [pc |-> "idle", res |-> [tag |-> "Ok", size |-> total + r.node.length],
         off |-> bytes_off, total |-> total + r.node.length]
    ELSE
        [pc |-> "size_ptr", res |-> None, off |-> bytes_off + r.node.length,
         total |-> total + r.node.length]

\* DevicePath::from_ffi_ptr: one iteration of the loop of size_in_bytes_from_ptr;
\* once the size is known the view of that many bytes is built.
SizeFromPtrStep ==
    /\ pc = "size_ptr"
    /\ \E r \in NodeFromFfiPtr(bytes_off) :
         LET n == PtrLoopBody(r) IN
         /\ pc' = n.pc
         /\ ptr_res' = n.res
         /\ bytes_off' = n.off
         /\ total' = n.total
         /\ dp' = IF n.res.tag = "Ok" THEN View(0, n.res.size) ELSE dp
    /\ UNCHANGED << aux_vars, mem, elems, overflow_checks, reads_hi, node_res, slice_res, iter_vars >>

\* ------------------------------------------------------------ node iterator

\* Mutant of Stop: NoMoreNodes stops at the END_ENTIRE node, as EndEntireNode
\* does.
Stop_NoMoreNodesStopsAtEnd(stop_condition, node) ==
    CASE stop_condition = "AnyEndNode" -> node.device_type = END
      [] stop_condition = "EndEntireNode" -> IsEndEntire(node)
      [] stop_condition = "NoMoreNodes" -> IsEndEntire(node)

\* Mutant of Stop: EndEntireNode looks at the type tag alone.
Stop_TypeOnly(stop_condition, node) ==
    CASE stop_condition = "AnyEndNode" -> node.device_type = END
      [] stop_condition = "EndEntireNode" -> node.device_type = END
      [] stop_condition = "NoMoreNodes" -> FALSE

\* The early stop condition of DevicePathNodeIterator::next.
Stop(stop_condition, node) ==
    CASE stop_condition = "AnyEndNode" -> node.device_type = END
      [] stop_condition = "EndEntireNode" -> IsEndEntire(node)
      [] stop_condition = "NoMoreNodes" -> FALSE

\* Mutant of IterStep: on a stop the window is advanced past the stopping node
\* instead of being cleared.
IterStep_StopAdvances(itr, r) ==
    IF r.tag = "Panic" THEN [tag |-> "Panic", it |-> itr]
    ELSE IF r.node.length > itr.nodes.len THEN [tag |-> "Panic", it |-> itr]
    ELSE IF Stop(itr.stop_condition, r.node) THEN
        [tag |-> "None",
         it |-> [itr EXCEPT !.nodes = View(@.off + r.node.length, @.len - r.node.length)]]
    ELSE [tag |-> "Some", node |-> r.node,
          it |-> [itr EXCEPT !.nodes = View(@.off + r.node.length, @.len - r.node.length)]]

\* DevicePathNodeIterator::next on a non-empty window, r being the outcome of
\* DevicePathNode::from_ffi_ptr at the window's start: the value returned and
\* the iterator afterwards.  &self.nodes[node_size..] panics past the window.
IterStep(itr, r) ==
    IF r.tag = "Panic" THEN [tag |-> "Panic", it |-> itr]
    ELSE IF Stop(itr.stop_condition, r.node) THEN
        [tag |-> "None", it |-> [itr EXCEPT !.nodes = View(0, 0)]]
    ELSE IF r.node.length > itr.nodes.len THEN [tag |-> "Panic", it |-> itr]
    ELSE [tag |-> "Some", node |-> r.node,
          it |-> [itr EXCEPT !.nodes = View(@.off + r.node.length, @.len - r.node.length)]]

\* DevicePathNodeIterator::next: its possible outcomes.
IterNext(itr) ==
    IF itr.nodes.len = 0 THEN { [tag |-> "None", it |-> itr] }
    ELSE { IterStep(itr, r) : r \in NodeFromFfiPtr(itr.nodes.off) }

\* Mutant of PathNodeIterOf: the whole-path iterator never stops early.
PathNodeIterOf_NoStop(path) == [nodes |-> path, stop_condition |-> "NoMoreNodes"]

\* Mutant of PathNodeIterOf: the whole-path iterator stops at any END node.
PathNodeIterOf_AnyEnd(path) == [nodes |-> path, stop_condition |-> "AnyEndNode"]

\* DevicePath::node_iter
PathNodeIterOf(path) == [nodes |-> path, stop_condition |-> "EndEntireNode"]

\* Mutant of InstanceNodeIterOf: the instance's iterator never stops early.
InstanceNodeIterOf_NoStop(instance) ==
    [nodes |-> instance, stop_condition |-> "NoMoreNodes"]

\* Mutant of InstanceNodeIterOf: the instance's iterator stops only at END_ENTIRE.
InstanceNodeIterOf_EndEntire(instance) ==
    [nodes |-> instance, stop_condition |-> "EndEntireNode"]

\* DevicePathInstance::node_iter
InstanceNodeIterOf(instance) == [nodes |-> instance, stop_condition |-> "AnyEndNode"]

\* let mut iter = dp.node_iter();
NodeIter ==
    /\ pc = "idle"
    /\ dp # None
    /\ it' = PathNodeIterOf(dp)
    /\ it_src' = [tag |-> "path", view |-> dp]
    /\ yielded' = << >>
    /\ it_done' = FALSE
    /\ UNCHANGED << aux_vars, mem, elems, overflow_checks, pc, bytes_off, total, reads_hi, node_res,
                    slice_res, ptr_res, dp, iit, instances, iit_done >>

\* let mut iter = instance.node_iter(); for an instance the instance iterator
\* has returned.
InstanceNodeIter ==
    /\ pc = "idle"
    /\ \E k \in 1..Len(instances) :
         /\ it' = InstanceNodeIterOf(instances[k])
         /\ it_src' = [tag |-> "instance", view |-> instances[k]]
    /\ yielded' = << >>
    /\ it_done' = FALSE
    /\ UNCHANGED << aux_vars, mem, elems, overflow_checks, pc, bytes_off, total, reads_hi, node_res,
                    slice_res, ptr_res, dp, iit, instances, iit_done >>

\* iter.next() on the node iterator.
NodeIterNext ==
    /\ pc = "idle"
    /\ it # None
    /\ \E o \in IterNext(it) :
         /\ it' = o.it
         /\ pc' = IF o.tag = "Panic" THEN "panicked" ELSE pc
         /\ yielded' = IF o.tag = "Some" THEN Append(yielded, o.node) ELSE yielded
         /\ it_done' = (o.tag = "None")
    /\ UNCHANGED << aux_vars, mem, elems, overflow_checks, bytes_off, total, reads_hi, node_res,
                    slice_res, ptr_res, dp, it_src, iit, instances, iit_done >>

\* -------------------------------------------------------- instance iterator

RECURSIVE InstanceScan_StandardEndsOnly(_, _)
\* Mutant of InstanceScan: the scan breaks on END_INSTANCE and END_ENTIRE nodes
\* only, not on END nodes of another subtype.
InstanceScan_StandardEndsOnly(itr, size) ==
    UNION { IF o.tag = "None" THEN { [tag |-> "Ok", size |-> size] }
            ELSE IF o.tag = "Panic" THEN { [tag |-> "Panic"] }
            ELSE IF o.node.device_type = END
                    /\ o.node.sub_type \in { END_INSTANCE, END_ENTIRE } THEN
                { [tag |-> "Ok", size |-> size + o.node.length] }
            ELSE IF o.node.length = 0 THEN { [tag |-> "Diverges"] }
            ELSE InstanceScan_StandardEndsOnly(o.it, size + o.node.length) :
            o \in IterNext(itr) }

RECURSIVE InstanceScan_EndEntireOnly(_, _)
\* Mutant of InstanceScan: the scan breaks on the END_ENTIRE node only.
InstanceScan_EndEntireOnly(itr, size) ==
    UNION { IF o.tag = "None" THEN { [tag |-> "Ok", size |-> size] }
            ELSE IF o.tag = "Panic" THEN { [tag |-> "Panic"] }
            ELSE IF IsEndEntire(o.node) THEN
                { [tag |-> "Ok", size |-> size + o.node.length] }
            ELSE IF o.node.length = 0 THEN { [tag |-> "Diverges"] }
            ELSE InstanceScan_EndEntireOnly(o.it, size + o.node.length) :
            o \in IterNext(itr) }

RECURSIVE InstanceScan(_, _)
\* The `for node in node_iter` loop of DevicePathInstanceIterator::next, with
\* instance_size = size so far: its outcomes, Ok with the final instance_size.
\* A node of length 0 that is not an END node is returned again and again.
InstanceScan(itr, size) ==
    UNION { IF o.tag = "None" THEN { [tag |-> "Ok", size |-> size] }
            ELSE IF o.tag = "Panic" THEN { [tag |-> "Panic"] }
            ELSE IF o.node.device_type = END THEN
                { [tag |-> "Ok", size |-> size + o.node.length] }
            ELSE IF o.node.length = 0 THEN { [tag |-> "Diverges"] }
            ELSE InstanceScan(o.it, size + o.node.length) :
            o \in IterNext(itr) }

\* Mutant of InstanceSplit: the rest starts at the END node that closed the
\* instance instead of after it.
InstanceSplit_RestKeepsTerminator(remaining_path, s) ==
    IF s.tag # "Ok" THEN
        [tag |-> s.tag, remaining_path |-> remaining_path]
    ELSE IF s.size > remaining_path.len THEN
        [tag |-> "Panic", remaining_path |-> remaining_path]
    ELSE [tag |-> "Some",
          instance |-> View(remaining_path.off, s.size),
          remaining_path |->
              IF remaining_path.len - s.size = 0 THEN None
              ELSE View(remaining_path.off + s.size - HeaderSize,
                        remaining_path.len - s.size + HeaderSize)]

\* Mutant of InstanceSplit: an empty rest is kept as the remaining path.
InstanceSplit_KeepsEmptyRest(remaining_path, s) ==
    IF s.tag # "Ok" THEN
        [tag |-> s.tag, remaining_path |-> remaining_path]
    ELSE IF s.size > remaining_path.len THEN
        [tag |-> "Panic", remaining_path |-> remaining_path]
    ELSE [tag |-> "Some",
          instance |-> View(remaining_path.off, s.size),
          remaining_path |->
              View(remaining_path.off + s.size, remaining_path.len - s.size)]

\* DevicePathInstanceIterator::next on the outcome s of the scan: split_at, the
\* new remaining_path and the instance returned.
InstanceSplit(remaining_path, s) ==
    IF s.tag # "Ok" THEN
        [tag |-> s.tag, remaining_path |-> remaining_path]
    ELSE IF s.size > remaining_path.len THEN
        [tag |-> "Panic", remaining_path |-> remaining_path]
    ELSE [tag |-> "Some",
          instance |-> View(remaining_path.off, s.size),
          remaining_path |->
              IF remaining_path.len - s.size = 0 THEN None
              ELSE View(remaining_path.off + s.size, remaining_path.len - s.size)]

\* let mut iter = dp.instance_iter();
InstanceIter ==
    /\ pc = "idle"
    /\ dp # None
    /\ iit' = [remaining_path |-> dp]
    /\ instances' = << >>
    /\ iit_done' = FALSE
    /\ UNCHANGED << aux_vars, mem, elems, overflow_checks, pc, bytes_off, total, reads_hi, node_res,
                    slice_res, ptr_res, dp, it, it_src, yielded, it_done >>

\* iter.next() on the instance iterator.
InstanceIterNext ==
    /\ pc = "idle"
    /\ iit # None
    /\ IF iit.remaining_path = None
       THEN /\ iit_done' = TRUE
            /\ UNCHANGED << iit, instances, pc >>
       ELSE \E s \in InstanceScan([nodes |-> iit.remaining_path,
                                   stop_condition |-> "NoMoreNodes"], 0) :
              LET n == InstanceSplit(iit.remaining_path, s) IN
              /\ iit' = [remaining_path |-> n.remaining_path]
              /\ pc' = CASE n.tag = "Panic" -> "panicked"
                         [] n.tag = "Diverges" -> "hung"
                         [] OTHER -> pc
              /\ instances' = IF n.tag = "Some" THEN Append(instances, n.instance)
                              ELSE instances
              /\ iit_done' = FALSE
    /\ UNCHANGED << aux_vars, mem, elems, overflow_checks, bytes_off, total, reads_hi, node_res,
                    slice_res, ptr_res, dp, it, it_src, yielded, it_done >>

Next ==
    \/ NodeTryFromBytes
    \/ SizeFromSliceStart
    \/ SizeFromSliceStep
    \/ SizeFromPtrStart
    \/ SizeFromPtrStep
    \/ NodeIter
    \/ InstanceNodeIter
    \/ NodeIterNext
    \/ InstanceIter
    \/ InstanceIterNext

Spec == Init /\ [][Next]_vars

\* ------------------------------------------------------------ owned copies

\* The bytes of mem a view covers.
ViewBytes(view) == SubSeq(mem, view.off + 1, view.off + view.len)

\* PartialEq for DevicePath and DevicePathInstance: self.data == other.data.
DataEq(a, b) == Len(a) = Len(b) /\ \A i \in 1..Len(a) : a[i] = b[i]

\* Mutant of ToBoxed: the box is made over the bytes of the view itself
\* instead of a copy of them.
ToBoxed_Borrowed(view) == [data |-> ViewBytes(view), borrowed |-> TRUE]

\* DevicePath::to_boxed / DevicePathInstance::to_boxed: self.data.to_owned()
\* turned into a boxed slice, which owns its bytes.
ToBoxed(view) == [data |-> ViewBytes(view), borrowed |-> FALSE]

\* let owned_dp = dp.to_owned();
PathToBoxed ==
    /\ pc = "idle"
    /\ dp # None
    /\ owned = None /\ call = None
    /\ owned' = [tag |-> "Box", of |-> "path", src |-> dp, box |-> ToBoxed(dp),
                 before |-> ViewBytes(dp), written |-> FALSE]
    /\ UNCHANGED << call, mem, elems, overflow_checks, pc, bytes_off, total, reads_hi,
                    node_res, slice_res, ptr_res, dp, iter_vars >>

\* let owned = instance.to_owned(); for an instance the instance iterator has
\* returned.
InstanceToBoxed ==
    /\ pc = "idle"
    /\ owned = None /\ call = None
    /\ \E k \in 1..Len(instances) :
         owned' = [tag |-> "Box", of |-> "instance", src |-> instances[k],
                   box |-> ToBoxed(instances[k]), before |-> ViewBytes(instances[k]),
                   written |-> FALSE]
    /\ UNCHANGED << call, mem, elems, overflow_checks, pc, bytes_off, total, reads_hi,
                    node_res, slice_res, ptr_res, dp, iter_vars >>

\* A write to the first or the last byte of the box.  The box owns its bytes,
\* so the write lands in mem only if the box was made over the view's bytes.
BoxedWrite ==
    /\ owned # None
    /\ ~owned.written
    /\ Len(owned.box.data) > 0
    /\ \E i \in { 1, Len(owned.box.data) } :
         LET b == (owned.box.data[i] + 1) % 256 IN
         /\ owned' = [owned EXCEPT !.box.data[i] = b, !.written = TRUE]
         /\ mem' = IF owned.box.borrowed THEN [mem EXCEPT ![owned.src.off + i] = b]
                   ELSE mem
    /\ UNCHANGED << call, elems, overflow_checks, pc, bytes_off, total, reads_hi,
                    node_res, slice_res, ptr_res, dp, iter_vars >>

\* The initial states whose memory holds a well-formed device path.
InitTrusted == Init /\ Trusted

NextPath ==
    \/ SizeFromSliceStart
    \/ SizeFromSliceStep
    \/ SizeFromPtrStart
    \/ SizeFromPtrStep
    \/ InstanceIter
    \/ InstanceIterNext
    \/ PathToBoxed
    \/ InstanceToBoxed
    \/ BoxedWrite

\* Views of a well-formed device path and their owned copies.
SpecPath == InitTrusted /\ [][NextPath]_vars

\* ------------------------------------------------- specific node types

\* size_of::<end::Instance>() and size_of::<end::Entire>(): a header, no payload.
EndNodeSize == HeaderSize

\* The conversion registry behind DevicePathNodeEnum: the (type, subtype) pairs
\* that have a specific node type, and the size of that type.
Registry ==
    { [variant |-> "EndInstance", device_type |-> END, sub_type |-> END_INSTANCE,
       size |-> EndNodeSize],
      [variant |-> "EndEntire", device_type |-> END, sub_type |-> END_ENTIRE,
       size |-> EndNodeSize] }

\* size_of_val(node) == size: a payload length that wrapped never matches.
HasSize(node, size) ==
    ~node.data_len.wrapped /\ HeaderSize + node.data_len.n = size

\* Mutant of SpecificTryFrom: the tags of the node are not compared.
SpecificTryFrom_AnyTag(entry, node) ==
    IF ~HasSize(node, entry.size) THEN Err("InvalidLength")
    ELSE [tag |-> "Ok", variant |-> entry.variant]

\* Mutant of SpecificTryFrom: a payload of the wrong size is reported as
\* DifferentType.
SpecificTryFrom_ShapeIsType(entry, node) ==
    IF node.device_type # entry.device_type \/ node.sub_type # entry.sub_type
    THEN Err("DifferentType")
    ELSE IF ~HasSize(node, entry.size) THEN Err("DifferentType")
    ELSE [tag |-> "Ok", variant |-> entry.variant]

\* <&T>::try_from(node) for the specific node type T of a registry entry.
SpecificTryFrom(entry, node) ==
    IF node.device_type # entry.device_type \/ node.sub_type # entry.sub_type
    THEN Err("DifferentType")
    ELSE IF ~HasSize(node, entry.size) THEN Err("InvalidLength")
    ELSE [tag |-> "Ok", variant |-> entry.variant]

\* The registry's entries for the tags of a node.
EntriesFor(node) ==
    { e \in Registry : e.device_type = node.device_type /\ e.sub_type = node.sub_type }

\* DevicePathNode::as_enum: DevicePathNodeEnum::try_from(self).
AsEnum(node) ==
    IF EntriesFor(node) = { } THEN Err("UnsupportedType")
    ELSE SpecificTryFrom(CHOOSE e \in EntriesFor(node) : TRUE, node)

\* <&end::Instance>::try_from(node) or <&end::Entire>::try_from(node), for
\* the node <&DevicePathNode>::try_from(mem) returned.
SpecificTryFromNode ==
    /\ pc = "idle"
    /\ node_res.tag = "Ok"
    /\ call = None
    /\ \E e \in Registry :
         call' = [tag |-> "try_from", target |-> e.variant, node |-> node_res.node,
                  res |-> SpecificTryFrom(e, node_res.node)]
    /\ UNCHANGED << owned, mem, elems, overflow_checks, pc, bytes_off, total, reads_hi,
                    node_res, slice_res, ptr_res, dp, iter_vars >>

\* node.as_enum() for the node <&DevicePathNode>::try_from(mem) returned.
NodeAsEnum ==
    /\ pc = "idle"
    /\ node_res.tag = "Ok"
    /\ call = None
    /\ call' = [tag |-> "as_enum", node |-> node_res.node, res |-> AsEnum(node_res.node)]
    /\ UNCHANGED << owned, mem, elems, overflow_checks, pc, bytes_off, total, reads_hi,
                    node_res, slice_res, ptr_res, dp, iter_vars >>

\* <&DevicePathHeader>::try_from(mem)
HeaderTryFromBytes ==
    /\ pc = "idle"
    /\ call = None
    /\ call' = [tag |-> "header", res |-> HeaderTryFrom(0)]
    /\ reads_hi' = Max(reads_hi, NodeTryFromReads(0))
    /\ UNCHANGED << owned, mem, elems, overflow_checks, pc, bytes_off, total,
                    node_res, slice_res, ptr_res, dp, iter_vars >>

NextCalls ==
    \/ NodeTryFromBytes
    \/ HeaderTryFromBytes
    \/ SpecificTryFromNode
    \/ NodeAsEnum

\* Single calls on a byte slice and on the node view made from it.
SpecCalls == Init /\ [][NextCalls]_vars

\* ------------------------------------------------------------- to_string

\* Errors the boot services and the DevicePathToText protocol can report.
TextErrors == { "NOT_FOUND", "OUT_OF_RESOURCES" }

\* What the platform answers during one to_string call: locate_handle_buffer
\* (an error, or a buffer of `handles` handles), open_protocol and the
\* conversion call of the protocol.
Platforms ==
    [ locate : { Err(e) : e \in TextErrors } \cup { [tag |-> "Ok", handles |-> n] : n \in 0..1 },
      open : { Err(e) : e \in TextErrors } \cup { [tag |-> "Ok"] },
      convert : { Err(e) : e \in TextErrors } \cup { [tag |-> "Ok", text |-> "text"] } ]

\* Mutant of OpenTextProtocol: the error of locate_handle_buffer is dropped
\* and reported as NoHandle.
OpenTextProtocol_LocateErrorDropped(env) ==
    IF env.locate.tag = "Err" THEN Err([kind |-> "NoHandle"])
    ELSE IF env.locate.handles = 0 THEN Err([kind |-> "NoHandle"])
    ELSE IF env.open.tag = "Err"
    THEN Err([kind |-> "CantOpenProtocol", error |-> env.open.err])
    ELSE [tag |-> "Ok"]

\* open_text_protocol
OpenTextProtocol(env) ==
    IF env.locate.tag = "Err"
    THEN Err([kind |-> "CantLocateHandleBuffer", error |-> env.locate.err])
    ELSE IF env.locate.handles = 0 THEN Err([kind |-> "NoHandle"])
    ELSE IF env.open.tag = "Err"
    THEN Err([kind |-> "CantOpenProtocol", error |-> env.open.err])
    ELSE [tag |-> "Ok"]

\* DevicePath::to_string and DevicePathNode::to_string: open_text_protocol()?,
\* then the conversion call with .map(CString16::from) and
\* .map_err(|_| DevicePathToTextError::OutOfMemory).
ToStringResult(env) ==
    IF OpenTextProtocol(env).tag = "Err" THEN OpenTextProtocol(env)
    ELSE IF env.convert.tag = "Err" THEN Err([kind |-> "OutOfMemory"])
    ELSE [tag |-> "Ok", text |-> env.convert.text]

\* dp.to_string(display_only, allow_shortcuts)
PathToString ==
    /\ pc = "idle"
    /\ dp # None
    /\ call = None
    /\ \E env \in Platforms :
         call' = [tag |-> "to_string", of |-> "path", env |-> env, res |-> ToStringResult(env)]
    /\ UNCHANGED << owned, mem, elems, overflow_checks, pc, bytes_off, total, reads_hi,
                    node_res, slice_res, ptr_res, dp, iter_vars >>

\* node.to_string(display_only, allow_shortcuts) for the node
\* <&DevicePathNode>::try_from(mem) returned.
NodeToString ==
    /\ pc = "idle"
    /\ node_res.tag = "Ok"
    /\ call = None
    /\ \E env \in Platforms :
         call' = [tag |-> "to_string", of |-> "node", env |-> env, res |-> ToStringResult(env)]
    /\ UNCHANGED << owned, mem, elems, overflow_checks, pc, bytes_off, total, reads_hi,
                    node_res, slice_res, ptr_res, dp, iter_vars >>

NextText ==
    \/ NodeTryFromBytes
    \/ SizeFromSliceStart
    \/ SizeFromSliceStep
    \/ PathToString
    \/ NodeToString

\* The text of a well-formed device path and of its first node.
SpecText == InitTrusted /\ [][NextText]_vars

\* ==================================================================== claims

\* ----------------------------------------------- what the input's nodes say

\* The length add_node declares for a node: header plus payload.
DeclaredLength(e) == HeaderSize + Len(e.data)

RECURSIVE SumLengths(_)
\* The sum of the declared lengths of a list of nodes.
SumLengths(es) ==
    IF es = << >> THEN 0 ELSE DeclaredLength(Head(es)) + SumLengths(Tail(es))

\* The offset in mem at which node i of elems starts.
ElemStart(i) == SumLengths(SubSeq(elems, 1, i - 1))

\* A list without its last element.
Front(q) == SubSeq(q, 1, Len(q) - 1)

IsPrefix(p, q) == Len(p) <= Len(q) /\ p = SubSeq(q, 1, Len(p))

\* DevicePathNode::data: the payload bytes of a node view.
NodeData(node) ==
    SubSeq(mem, node.off + HeaderSize + 1, node.off + HeaderSize + node.data_len.n)

\* What check_node compares of a node view: type, subtype and payload.
AsElem(node) == Elem(node.device_type, node.sub_type, NodeData(node))

AsElems(nodes) == [i \in 1..Len(nodes) |-> AsElem(nodes[i])]

\* The indexes of the nodes of elems that start inside a view.
ElemsIn(view) ==
    { i \in 1..Len(elems) : view.off <= ElemStart(i) /\ ElemStart(i) < view.off + view.len }

IsEndElem(e) == e.device_type = END

\* The nodes of elems from index lo to index hi.
ElemRange(lo, hi) == SubSeq(elems, lo, hi)

SetMin(S) == CHOOSE x \in S : \A y \in S : x <= y
SetMax(S) == CHOOSE x \in S : \A y \in S : x >= y

\* The node iterator of the whole path / of instance k is live.
PathIterLive == Trusted /\ it_src.tag = "path"
InstanceIterLive == Trusted /\ it_src.tag = "instance"

\* C1: on a well-formed device path the size of the view built by
\* DevicePath::from_ffi_ptr is the sum of the declared lengths of all its nodes,
\* END_INSTANCE nodes and the final END_ENTIRE node included.
C1_PtrSizeIsSumOfLengths ==
    ptr_res.tag = "Ok" => ptr_res.size = SumLengths(elems)

C1_Witness ==
    /\ ptr_res.tag = "Ok"
    /\ Len(elems) >= 3
    /\ \E i \in 1..Len(elems) - 1 : elems[i] = Elem(END, END_INSTANCE, << >>)
    /\ Len(mem) > ptr_res.size

\* C2: on a well-formed device path size_in_bytes_from_ptr and
\* size_in_bytes_from_slice (the slice holding the whole path) give the same
\* total, so from_ffi_ptr and try_from build views of the same extent.
C2_PtrAndSliceSizesAgree ==
    (ptr_res.tag = "Ok" /\ slice_res # None /\ pc = "idle") => slice_res = ptr_res

C2_Witness ==
    /\ ptr_res.tag = "Ok"
    /\ slice_res.tag = "Ok"
    /\ Len(elems) >= 3
    /\ Len(mem) = slice_res.size

\* C3: on a well-formed device path no next() of the iterator of
\* DevicePath::node_iter returns the final END_ENTIRE node.
C3_PathIterNeverYieldsEndEntire ==
    PathIterLive => \A i \in 1..Len(yielded) : ~IsEndEntire(yielded[i])

C3_Witness ==
    /\ PathIterLive
    /\ it_done
    /\ Len(yielded) >= 2
    /\ Len(mem) > it_src.view.len

\* C4: for an instance returned by instance_iter on a well-formed path,
\* DevicePathInstance::node_iter returns exactly the nodes before the
\* instance's terminator, in order, and never the terminator, be it
\* END_INSTANCE or END_ENTIRE.
C4_InstanceIterYieldsNodesBeforeTerminator ==
    InstanceIterLive =>
        LET in == ElemsIn(it_src.view)
            want == ElemRange(SetMin(in), SetMax(in) - 1) IN
        /\ in # {}
        /\ IsPrefix(AsElems(yielded), want)
        /\ it_done => AsElems(yielded) = want

C4_Witness ==
    /\ InstanceIterLive
    /\ it_done
    /\ Len(yielded) >= 1
    /\ elems[SetMax(ElemsIn(it_src.view))] = Elem(END, END_INSTANCE, << >>)

\* C5: DevicePath::node_iter on a well-formed path returns, in list order, every
\* node before the final END_ENTIRE node, interior END nodes included: one node
\* fewer than the path has.
C5_PathIterYieldsAllButEndEntire ==
    PathIterLive =>
        /\ IsPrefix(AsElems(yielded), Front(elems))
        /\ it_done => (AsElems(yielded) = Front(elems) /\ Len(yielded) = Len(elems) - 1)

C5_Witness ==
    /\ PathIterLive
    /\ it_done
    /\ Len(yielded) >= 2
    /\ yielded[1].device_type # END
    /\ yielded[2].device_type = END
    /\ yielded[2].sub_type = END_INSTANCE

\* The nodes of a list that are not END nodes, in order.
NonTerminators(es) == SelectSeq(es, LAMBDA e : ~IsEndElem(e))

\* The END nodes of a list, in order.
Terminators(es) == SelectSeq(es, IsEndElem)

\* C6 as stated: whole-list node iteration returns exactly the non-terminator
\* nodes; for [A, B, END_INSTANCE, C, D, END_ENTIRE] the four nodes A, B, C, D
\* and no node of type END.
C6_Original_PathIterSkipsInstanceTerminators ==
    (PathIterLive /\ it_done /\ elems = RawDevicePathNodes) =>
        /\ AsElems(yielded) = NonTerminators(RawDevicePathNodes)
        /\ \A i \in 1..Len(yielded) : yielded[i].device_type # END

\* C6 as amended: whole-list node iteration returns every node but the final
\* END_ENTIRE node, interior END_INSTANCE nodes included; for
\* [A, B, END_INSTANCE, C, D, END_ENTIRE] the five nodes A, B, END_INSTANCE, C, D.
C6_PathIterYieldsInstanceTerminators ==
    (PathIterLive /\ it_done) =>
        /\ NonTerminators(AsElems(yielded)) = NonTerminators(elems)
        /\ Terminators(AsElems(yielded)) = Terminators(Front(elems))
        /\ elems = RawDevicePathNodes =>
             AsElems(yielded) = SubSeq(RawDevicePathNodes, 1, 5)

C6_Witness ==
    /\ PathIterLive
    /\ it_done
    /\ elems = RawDevicePathNodes
    /\ Len(yielded) = 5

\* The number of nodes before the final END_ENTIRE node that satisfy P.
InteriorCount(P(_)) == Cardinality({ i \in 1..Len(elems) - 1 : P(elems[i]) })

IsEndInstanceElem(e) == e.device_type = END /\ e.sub_type = END_INSTANCE

\* An instance view covers whole nodes of elems, the last of them an END node.
InstanceEndsInTerminator(view) ==
    LET in == ElemsIn(view) IN
    /\ in # {}
    /\ view.off = ElemStart(SetMin(in))
    /\ view.len = SumLengths(ElemRange(SetMin(in), SetMax(in)))
    /\ IsEndElem(elems[SetMax(in)])

LengthField == FromLeBytes(mem[3], mem[4])

\* C8 as stated: a slice of at least 4 bytes whose length field is below the
\* header size makes <&DevicePathNode>::try_from and <&DevicePath>::try_from
\* return Err(InvalidLength), with no panic and no underflow.
C8_ShortLengthIsInvalidLength ==
    (Len(mem) >= HeaderSize /\ LengthField < HeaderSize) =>
        /\ pc # "panicked"
        /\ node_res # None => node_res = Err("InvalidLength")
        /\ slice_res # None => slice_res = Err("InvalidLength")

\* C9 as stated: <&DevicePathNode>::try_from(bytes) returns Err(InvalidLength)
\* if bytes is shorter than a header or than the declared length, and Ok with
\* a node view otherwise.
C9_NodeTryFromOkOrInvalidLength ==
    node_res # None =>
        IF Len(mem) < HeaderSize \/ LengthField > Len(mem)
        THEN node_res = Err("InvalidLength")
        ELSE node_res.tag = "Ok"

\* C10: whatever the bytes, <&DevicePath>::try_from never reads at an offset
\* >= bytes.len() at any step of its walk, and a view it returns is no longer
\* than the slice.
C10_TryFromStaysInsideSlice ==
    /\ reads_hi < Len(mem)
    /\ slice_res.tag = "Ok" => slice_res.size <= Len(mem)

C10_Witness ==
    /\ ~Trusted
    /\ slice_res = Err("InvalidLength")
    /\ bytes_off > 0
    /\ reads_hi = HeaderSize - 1
    /\ Len(mem) > HeaderSize

\* The length field of the header that starts at offset off of mem.
LengthFieldAt(off) == FromLeBytes(mem[off + 3], mem[off + 4])

\* The bytes at offset off of mem are the header of an END_ENTIRE node.
EndEntireAt(off) == mem[off + 1] = END /\ mem[off + 2] = END_ENTIRE

RECURSIVE ValidNodesOnly(_)
\* mem[off..] is a sequence of whole nodes, each of declared length >= 4 and
\* none of them an END_ENTIRE node.
ValidNodesOnly(off) ==
    IF off = Len(mem) THEN TRUE
    ELSE /\ off + HeaderSize <= Len(mem)
         /\ LengthFieldAt(off) >= HeaderSize
         /\ off + LengthFieldAt(off) <= Len(mem)
         /\ ~EndEntireAt(off)
         /\ ValidNodesOnly(off + LengthFieldAt(off))

\* C11: on a slice that is a sequence of valid nodes without any END_ENTIRE
\* node <&DevicePath>::try_from returns Err(InvalidLength), not Ok and not a
\* panic; it returns Ok only after adding the length of an END_ENTIRE node that
\* lies inside the slice.
C11_UnterminatedIsInvalidLength ==
    /\ (ValidNodesOnly(0) /\ slice_res # None) => slice_res = Err("InvalidLength")
    /\ slice_res.tag = "Ok" =>
         \E off \in 0..(Len(mem) - HeaderSize) :
            /\ EndEntireAt(off)
            /\ off + LengthFieldAt(off) = slice_res.size
            /\ slice_res.size <= Len(mem)

C11_Witness ==
    /\ ValidNodesOnly(0)
    /\ slice_res = Err("InvalidLength")
    /\ bytes_off = Len(mem)
    /\ Len(mem) > 2 * HeaderSize

\* C12: on the first k bytes of a well-formed path of size S, k < S,
\* <&DevicePath>::try_from returns Err(InvalidLength) and reads no byte at an
\* index >= k.
C12_TruncatedPathIsInvalidLength ==
    mem \in TruncatedPaths =>
        /\ slice_res # None => slice_res = Err("InvalidLength")
        /\ reads_hi < Len(mem)

C12_Witness ==
    /\ mem \in TruncatedPaths
    /\ slice_res = Err("InvalidLength")
    /\ bytes_off > 0
    /\ Len(mem) - bytes_off > HeaderSize
    /\ reads_hi = bytes_off + HeaderSize - 1

\* The loop of size_in_bytes_from_slice makes progress: each outcome of its
\* next iteration is the final Ok or Err, or moves to a later offset.
SliceLoopProgress ==
    pc = "size_slice" =>
        \A r \in NodeTryFrom(bytes_off) :
            \/ SliceLoopBody(r).res.tag \in { "Ok", "Err" }
            \/ SliceLoopBody(r).off > bytes_off

\* DevicePathNodeIterator::next makes progress: each outcome is None, or a
\* node and a strictly shorter window.
NodeIterProgress ==
    it # None =>
        \A o \in IterNext(it) :
            \/ o.tag = "None"
            \/ o.tag = "Some" /\ o.it.nodes.len < it.nodes.len

\* C13: every traversal on the safe path terminates: the loop of
\* size_in_bytes_from_slice reaches Ok or Err after finitely many iterations,
\* and a node iterator returns None after finitely many calls of next(), also
\* when a node declares the length 0.
C13_SafeTraversalsTerminate ==
    /\ slice_res.tag \in { "None", "Ok", "Err" }
    /\ SliceLoopProgress
    /\ NodeIterProgress

\* The stop policy of a node iterator triggers on a node: AnyEndNode on every
\* END-typed node, EndEntireNode on the END_ENTIRE node.
PolicyTriggers(stop_condition, node) ==
    \/ stop_condition = "AnyEndNode" /\ node.device_type = END
    \/ /\ stop_condition = "EndEntireNode"
       /\ node.device_type = END
       /\ node.sub_type = END_ENTIRE

\* The iterator itr with its window extended over the bytes of mem that follow
\* it, by every possible amount.
Widened(itr) ==
    { [itr EXCEPT !.nodes = View(itr.nodes.off, n)] :
        n \in itr.nodes.len..(Len(mem) - itr.nodes.off) }

\* C14: when the stop policy of a node iterator triggers on the node at the
\* front of its window, next() returns None and clears the window, and every
\* later next() returns None too, whatever bytes followed the node in the
\* window.
C14_StopIsFinal ==
    /\ it_done => it.nodes.len = 0 /\ \A o \in IterNext(it) : o.tag = "None"
    /\ it # None =>
         \A w \in Widened(it) : \A r \in NodeFromFfiPtr(w.nodes.off) :
            (w.nodes.len > 0 /\ r.tag = "Ok" /\ PolicyTriggers(w.stop_condition, r.node)) =>
                /\ IterStep(w, r).tag = "None"
                /\ IterStep(w, r).it.nodes.len = 0
                /\ \A o \in IterNext(IterStep(w, r).it) :
                      o.tag = "None" /\ o.it = IterStep(w, r).it

C14_Witness ==
    /\ Trusted
    /\ it_done
    /\ it.nodes.len = 0
    /\ Len(yielded) >= 1
    /\ Len(yielded) < Cardinality(ElemsIn(it_src.view))
    /\ Len(mem) > it_src.view.off + it_src.view.len

\* The offset just past the first END_ENTIRE node of elems.
FirstEndEntireEnd ==
    LET i == SetMin({ k \in 1..Len(elems) :
                        elems[k].device_type = END /\ elems[k].sub_type = END_ENTIRE })
    IN  ElemStart(i) + DeclaredLength(elems[i])

\* Memory holds further bytes after the first END_ENTIRE node.
BytesAfterFirstEndEntire == Trusted /\ Len(mem) > FirstEndEntireEnd

\* C15: when further bytes follow the first END_ENTIRE node in the memory or
\* slice, size_in_bytes_from_ptr and size_in_bytes_from_slice both return the
\* offset just past that node, and the view built by from_ffi_ptr or try_from
\* ends there, leaving out every later byte.
C15_ViewEndsAtFirstEndEntire ==
    BytesAfterFirstEndEntire =>
        /\ ptr_res # None => ptr_res = [tag |-> "Ok", size |-> FirstEndEntireEnd]
        /\ slice_res # None => slice_res = [tag |-> "Ok", size |-> FirstEndEntireEnd]
        /\ dp # None =>
             /\ dp = View(0, FirstEndEntireEnd)
             /\ SubSeq(mem, dp.off + 1, dp.off + dp.len) = Flatten(elems)

C15_Witness ==
    /\ BytesAfterFirstEndEntire
    /\ ptr_res.tag = "Ok"
    /\ slice_res.tag = "Ok"
    /\ dp.len < Len(mem)
    /\ \E off \in dp.len..(Len(mem) - HeaderSize) : EndEntireAt(off)

\* C16: the box made by to_boxed()/to_owned() from a DevicePath or a
\* DevicePathInstance compares equal to the original, with the same bytes and
\* the same length, and a later write to the box leaves the bytes of the
\* original as they were.
C16_BoxedCopyIsEqualAndSeparate ==
    owned # None =>
        /\ ViewBytes(owned.src) = owned.before
        /\ Len(owned.box.data) = owned.src.len
        /\ ~owned.written =>
             /\ DataEq(owned.box.data, ViewBytes(owned.src))
             /\ owned.box.data = Flatten(ElemRange(SetMin(ElemsIn(owned.src)),
                                                   SetMax(ElemsIn(owned.src))))

C16_Witness ==
    /\ owned # None
    /\ owned.of = "instance"
    /\ owned.src.off > 0
    /\ owned.written
    /\ ~DataEq(owned.box.data, ViewBytes(owned.src))

\* The node of the last conversion call has the given tags.
CallNodeTagged(t, st) == call.node.device_type = t /\ call.node.sub_type = st

C18_Original_WrongPayloadIsDifferentType ==
    call.tag = "as_enum" =>
        IF EntriesFor(call.node) = { } THEN call.res = Err("UnsupportedType")
        ELSE IF call.node.length # EndNodeSize THEN call.res = Err("DifferentType")
        ELSE call.res.tag = "Ok"

\* C18: as_enum fails with InvalidLength when the registry has an entry for
\* the tags of the node and the payload length of the node is not the one of
\* that entry, with UnsupportedType when the registry has no entry, and
\* succeeds otherwise; it never fails with DifferentType.
C18_WrongPayloadIsInvalidLength ==
    call.tag = "as_enum" =>
        /\ IF EntriesFor(call.node) = { } THEN call.res = Err("UnsupportedType")
           ELSE IF call.node.length # EndNodeSize THEN call.res = Err("InvalidLength")
           ELSE call.res.tag = "Ok"
        /\ call.res # Err("DifferentType")

C18_Witness ==
    /\ call.tag = "as_enum"
    /\ mem = Flatten(<< Elem(END, END_INSTANCE, << 10, 11 >>) >>)
    /\ call.res = Err("InvalidLength")

\* The result res of to_string reports the error e of the conversion call:
\* it carries e, or it is OutOfMemory and e is OUT_OF_RESOURCES.
ReportsConversionError(r, e) ==
    /\ r.tag = "Err"
    /\ \/ r.err = [kind |-> "OutOfMemory"] /\ e = "OUT_OF_RESOURCES"
       \/ r.err.kind # "OutOfMemory" /\ r.err.error = e

\* The failures of open_text_protocol reach the caller of to_string with the
\* errors the boot services reported.
OpenFailuresPropagated ==
    /\ call.env.locate.tag = "Err" =>
         call.res = Err([kind |-> "CantLocateHandleBuffer", error |-> call.env.locate.err])
    /\ (call.env.locate.tag = "Ok" /\ call.env.locate.handles = 0) =>
         call.res = Err([kind |-> "NoHandle"])
    /\ (call.env.locate.tag = "Ok" /\ call.env.locate.handles > 0
            /\ call.env.open.tag = "Err") =>
         call.res = Err([kind |-> "CantOpenProtocol", error |-> call.env.open.err])

\* The protocol was opened, so that the conversion call was made.
ConversionCalled ==
    /\ call.env.locate.tag = "Ok"
    /\ call.env.locate.handles > 0
    /\ call.env.open.tag = "Ok"

C20_HeaderTryFromDependsOnLengthOnly ==
    call.tag = "header" =>
        /\ Len(mem) >= 4 => call.res = [tag |-> "Ok"]
        /\ Len(mem) < 4 => call.res = Err("InvalidLength")

C20_Witness ==
    /\ call.tag = "header"
    /\ call.res.tag = "Ok"
    /\ Len(mem) > 4
    /\ mem[1] = END_ENTIRE
    /\ mem[2] = 0
    /\ LengthFieldAt(0) = 0

\* The node views the program holds: the one <&DevicePathNode>::try_from(mem)
\* returned and the ones the node iterator has returned.
NodeViews ==
    (IF node_res.tag = "Ok" THEN { node_res.node } ELSE { })
        \cup { yielded[i] : i \in 1..Len(yielded) }

\* length() of a node view is the 16-bit little-endian value of bytes 2 and 3
\* of its header.
LengthIsLittleEndian(n) ==
    n.off + HeaderSize <= Len(mem) => n.length = mem[n.off + 3] + 256 * mem[n.off + 4]

\* data().len() of a node view is its length() less the 4 bytes of the header.
PayloadIsLengthLessHeader(n) ==
    ~n.data_len.wrapped /\ n.data_len.n = n.length - 4 /\ n.data_len.n >= 0

\* The part of C21 that holds: the decoding of the length field, and the
\* payload size of every node view that declares at least a header.
LengthDecodedWhereDeclared ==
    \A n \in NodeViews :
        /\ LengthIsLittleEndian(n)
        /\ n.length >= HeaderSize => PayloadIsLengthLessHeader(n)

\* C21: for header bytes [t, s, lo, hi] the length() of the node view is
\* lo + 256 * hi, which counts the 4 header bytes, and its payload has
\* lo + 256 * hi - 4 bytes.
C21_LengthIsLittleEndianInclusive ==
    \A n \in NodeViews : LengthIsLittleEndian(n) /\ PayloadIsLengthLessHeader(n)

RECURSIVE WalkReachesEndEntireAtEnd(_, _)
\* Walking a view node by node from offset off, by the length fields in mem:
\* every node lies inside the view, and the first END_ENTIRE node met is the
\* one that ends where the view ends.
WalkReachesEndEntireAtEnd(view, off) ==
    /\ view.off <= off
    /\ off + HeaderSize <= view.off + view.len
    /\ off + HeaderSize <= Len(mem)
    /\ LengthFieldAt(off) >= HeaderSize
    /\ off + LengthFieldAt(off) <= view.off + view.len
    /\ IF EndEntireAt(off) THEN off + LengthFieldAt(off) = view.off + view.len
       ELSE WalkReachesEndEntireAtEnd(view, off + LengthFieldAt(off))

\* The part of C22 that holds: views of well-formed memory, and views made by
\* a build with overflow checks.
ViewEndsInEndEntireWhenChecked ==
    (dp # None /\ (Trusted \/ overflow_checks)) => WalkReachesEndEntireAtEnd(dp, dp.off)

\* C22: every DevicePath view made by <&DevicePath>::try_from or by
\* from_ffi_ptr holds exactly one END_ENTIRE node, its last node: a walk of
\* the view from offset 0 reaches END_ENTIRE exactly when the lengths add up
\* to the size of the view.
C22_ViewHasOneEndEntireLast ==
    dp # None => WalkReachesEndEntireAtEnd(dp, dp.off)

\* The iterator DevicePathInstanceIterator::next makes over a window.
UnboundedIterOf(window) == [nodes |-> window, stop_condition |-> "NoMoreNodes"]

RECURSIVE Drain(_)
\* The nodes next() returns, call after call, until it returns no node.
Drain(itr) ==
    LET o == CHOOSE x \in IterNext(itr) : TRUE
    IN  IF o.tag = "Some" THEN << o.node >> \o Drain(o.it) ELSE << >>

RECURSIVE NoneOnlyWhenEmpty(_)
\* Every next() on a non-empty window returns a node, up to the call that
\* finds the window empty.
NoneOnlyWhenEmpty(itr) ==
    \A o \in IterNext(itr) :
        IF itr.nodes.len = 0 THEN o.tag = "None"
        ELSE o.tag = "Some" /\ NoneOnlyWhenEmpty(o.it)

\* The windows an iterator with the NoMoreNodes policy is made over: the path
\* and what the instance iterator has left of it.
UnboundedWindows ==
    (IF dp # None THEN { dp } ELSE { })
        \cup (IF iit # None /\ iit.remaining_path # None THEN { iit.remaining_path }
              ELSE { })

\* C23: with the NoMoreNodes policy the node iterator returns every node of
\* its window in order, END_INSTANCE and END_ENTIRE nodes included, and
\* returns None only once the window is empty.
C23_UnboundedYieldsEveryNode ==
    Trusted =>
        \A w \in UnboundedWindows :
            /\ AsElems(Drain(UnboundedIterOf(w))) =
                   ElemRange(SetMin(ElemsIn(w)), SetMax(ElemsIn(w)))
            /\ NoneOnlyWhenEmpty(UnboundedIterOf(w))

C23_Witness ==
    /\ Trusted
    /\ Len(instances) >= 1
    /\ iit.remaining_path # None
    /\ Len(Drain(UnboundedIterOf(iit.remaining_path))) >= 2
    /\ \E i \in 1..Len(Drain(UnboundedIterOf(dp))) :
          /\ Drain(UnboundedIterOf(dp))[i].device_type = END
          /\ Drain(UnboundedIterOf(dp))[i].sub_type = END_INSTANCE
    /\ IsEndEntire(Drain(UnboundedIterOf(dp))[Len(Drain(UnboundedIterOf(dp)))])

\* The instance iterator has returned the instance that ends where the path
\* ends.
PathConsumed ==
    /\ iit # None
    /\ Len(instances) >= 1
    /\ instances[Len(instances)].off + instances[Len(instances)].len = dp.off + dp.len

\* The instances returned so far start at the start of the path and each one
\* starts where the one before it ended, further on in the path.
InstancesInListOrder ==
    Len(instances) >= 1 =>
        /\ instances[1].off = dp.off
        /\ \A k \in 1..(Len(instances) - 1) :
              /\ instances[k].len > 0
              /\ instances[k + 1].off = instances[k].off + instances[k].len

\* C24: once DevicePathInstanceIterator::next has returned the instance that
\* takes the rest of the path, every later next() returns None: no instance
\* is added to the ones returned; the instances are returned in list order
\* and none of them twice.
C24_InstanceIterEndsAfterLastInstance ==
    /\ [](iit # None => InstancesInListOrder)
    /\ [](PathConsumed => iit.remaining_path = None)
    /\ [](iit_done => PathConsumed)
    /\ [][(PathConsumed /\ instances' # instances) => instances' = << >>]_vars

C24_Witness ==
    /\ Trusted
    /\ PathConsumed
    /\ iit_done
    /\ Len(instances) >= 2

\* A node view spans its declared length: header and payload together have
\* length() bytes, all of them bytes of the source.
SpansDeclaredLength(n) ==
    /\ ~n.data_len.wrapped
    /\ n.length = HeaderSize + n.data_len.n
    /\ n.length = HeaderSize + Len(NodeData(n))

\* The part of C25 that holds: node views that declare at least a header.
NodeSpansLengthWhereDeclared ==
    \A n \in NodeViews : n.length >= HeaderSize => SpansDeclaredLength(n)

\* C25: every node view <&DevicePathNode>::try_from or a node iterator
\* returns spans exactly its declared length, length() = 4 + data().len(),
\* also when the source holds more bytes than the node declares.
C25_NodeViewSpansDeclaredLength ==
    \A n \in NodeViews : SpansDeclaredLength(n)

RECURSIVE ConcatViews(_)
\* The bytes of a list of views, one after the other.
ConcatViews(views) ==
    IF views = << >> THEN << >> ELSE ViewBytes(Head(views)) \o ConcatViews(Tail(views))

RECURSIVE SumViewLens(_)
\* The sizes of a list of views added up.
SumViewLens(views) ==
    IF views = << >> THEN 0 ELSE Head(views).len + SumViewLens(Tail(views))

\* What the instance iterator has not returned yet.
RemainingBytes ==
    IF iit.remaining_path = None THEN << >> ELSE ViewBytes(iit.remaining_path)

\* C26: on a well-formed device path the instances instance_iter returns, put
\* one after the other in the order returned, are the bytes of the path, with
\* no gap and no overlap, and their sizes add up to the size of the path; the
\* iteration neither panics nor hangs.
C26_InstancesPartitionPath ==
    (Trusted /\ iit # None) =>
        /\ pc \notin { "panicked", "hung" }
        /\ ConcatViews(instances) \o RemainingBytes = ViewBytes(dp)
        /\ iit.remaining_path = None =>
             /\ Len(instances) >= 1
             /\ ConcatViews(instances) = Flatten(elems)
             /\ SumViewLens(instances) = dp.len

C26_Witness ==
    /\ Trusted
    /\ iit # None
    /\ iit.remaining_path = None
    /\ Len(instances) >= 3
    /\ ConcatViews(instances) = ViewBytes(dp)
    /\ Len(mem) > dp.len

RECURSIVE InstanceNodes(_)
\* The nodes DevicePathInstance::node_iter returns for each instance of a
\* list, one instance after the other.
InstanceNodes(views) ==
    IF views = << >> THEN << >>
    ELSE Drain(InstanceNodeIterOf(Head(views))) \o InstanceNodes(Tail(views))

\* A node view of an END_INSTANCE node.
IsEndInstanceNode(n) == n.device_type = END /\ n.sub_type = END_INSTANCE

\* The END-typed nodes of the path are END_INSTANCE and END_ENTIRE nodes only.
OnlyStandardEndNodes ==
    \A i \in 1..Len(elems) :
        elems[i].device_type = END => elems[i].sub_type \in { END_INSTANCE, END_ENTIRE }

\* The instance iterator has returned every instance of a well-formed path.
AllInstancesReturned == Trusted /\ iit # None /\ iit.remaining_path = None

\* C27: on a well-formed device path whose END-typed nodes are END_INSTANCE
\* and END_ENTIRE nodes only, the nodes of DevicePathInstance::node_iter over
\* the instances of instance_iter, in order, are the nodes of
\* DevicePath::node_iter without the END_INSTANCE nodes.
C27_InstanceNodesArePathNodes ==
    (AllInstancesReturned /\ OnlyStandardEndNodes) =>
        InstanceNodes(instances) =
            SelectSeq(Drain(PathNodeIterOf(dp)), LAMBDA n : ~IsEndInstanceNode(n))

C27_Witness ==
    /\ AllInstancesReturned
    /\ OnlyStandardEndNodes
    /\ Len(instances) >= 2
    /\ Len(InstanceNodes(instances)) >= 3
    /\ Len(Drain(PathNodeIterOf(dp))) > Len(InstanceNodes(instances))

\* The indexes of the END-typed nodes of elems before its last node.
EndTypedBeforeLast == { i \in 1..(Len(elems) - 1) : elems[i].device_type = END }

\* The indexes of the END-typed nodes of elems whose subtype is neither
\* END_INSTANCE nor END_ENTIRE.
OtherEndNodes ==
    { i \in 1..Len(elems) :
        elems[i].device_type = END /\ elems[i].sub_type \notin { END_INSTANCE, END_ENTIRE } }

\* The nodes of elems inside a view, in order.
ElemsOf(view) == ElemRange(SetMin(ElemsIn(view)), SetMax(ElemsIn(view)))

====
